---- MODULE Spec2Model ----
(***************************************************************************)
(* Model of the lights HAL of src/light/Light.cpp: the Led channel         *)
(* (setBrightness, setBlink), the Light controller (setLight and its four  *)
(* handlers, the priority arbitration setSpeakerBatteryLightLocked and     *)
(* setSpeakerLightLocked) and the mutex mLock that serialises the callers. *)
(*                                                                         *)
(* A 32-bit color is kept as two 16-bit limbs [hi, lo] (color = hi * 2^16  *)
(* + lo), so that no value of the model leaves the integer range of the    *)
(* model checker.  A sysfs attribute holds the last line written to it, as *)
(* the list of the decimal integers on that line (<<>>: never written).    *)
(***************************************************************************)
EXTENDS Integers, Sequences, FiniteSets, TLC

VARIABLES
    mLock,               \* Light::mLock: 0 (free) or the thread that holds it
    mNotificationState,  \* Light::mNotificationState
    mAttentionState,     \* Light::mAttentionState
    mBatteryState,       \* Light::mBatteryState
    maxBrightness,       \* Light::mLcdBacklight.second
    opened,              \* the attribute files whose std::ofstream opened
    leds,                \* leds[led][attr]: last line written to an Led attribute
    rgbBlink,            \* last line written to Light::mRgbBlink
    lcd,                 \* last line written to Light::mLcdBacklight.first
    log,                 \* the writes of the latest call, in order
    pc,                  \* pc[t]: where thread t stands in setLight
    arg,                 \* arg[t]: the (type, state) of a call, until its handler has read it
    ret,                 \* ret[t]: the Status the latest call of t returned
    frame,               \* frame[t]: the locals of setSpeakerLightLocked
    lastLocked,          \* history: per role, the state of the call that locked last
    hist                 \* history: a call and what it left, for a repeated call

vars == <<mLock, mNotificationState, mAttentionState, mBatteryState,
          maxBrightness, opened, leds, rgbBlink, lcd, log, pc, arg, ret,
          frame, lastLocked, hist>>

-----------------------------------------------------------------------------
(* Program constants, Light.cpp:27-30                                      *)

RAMP_SIZE == 8
RAMP_STEP_DURATION == 50
BRIGHTNESS_RAMP == <<0, 12, 25, 37, 50, 72, 85, 100>>
MAX_BRIGHTNESS == 255

(* Bounds of the model                                                     *)
NumThreads == 2

Threads == 1..NumThreads

-----------------------------------------------------------------------------
(* C integer arithmetic                                                    *)

\* int / int with a positive divisor: C truncates toward zero.
CDiv(a, b) == IF a >= 0 THEN a \div b ELSE (a + b - 1) \div b

\* int - int for a non-negative subtrahend, wrapped to 32 bits
\* (two's complement: the result the compiled subtraction leaves).
Sub32(a, b) ==
    IF a >= b - 2147483647 - 1
    THEN a - b
    ELSE (a + 2147483647) + (2147483647 - b) + 2

\* uint32_t * uint32_t for a <= 255, modulo 2^32, as limbs [hi, lo].
Mul32(a, m) ==
    LET mh == m \div 65536
        ml == m % 65536
        low == a * ml
    IN  [hi |-> (a * mh + low \div 65536) % 65536, lo |-> low % 65536]

\* uint32_t / 255 of a value given as limbs; the quotient is below 2^25.
Div255(v) ==
    (v.hi \div 255) * 65536 + ((v.hi % 255) * 65536 + v.lo) \div 255

-----------------------------------------------------------------------------
(* LightState and the color accessors                                      *)

Color(hi, lo) == [hi |-> hi, lo |-> lo]

LightState(color, flashMode, flashOnMs, flashOffMs) ==
    [color |-> color, flashMode |-> flashMode,
     flashOnMs |-> flashOnMs, flashOffMs |-> flashOffMs]

\* (color >> 24) & 0xff, (color >> 16) & 0xff, (color >> 8) & 0xff, color & 0xff
AlphaOf(color) == color.hi \div 256
RedOf(color)   == color.hi % 256
GreenOf(color) == color.lo \div 256
BlueOf(color)  == color.lo % 256

\* The stored states after construction: off.
InitialLightState == LightState(Color(0, 0), "NONE", 0, 0)

\* Light.cpp:32-36
rgbToBrightness(state) ==
    LET color == Color(state.color.hi % 256, state.color.lo)   \* & 0x00ffffff
    IN  (77 * RedOf(color) + 150 * GreenOf(color) + 29 * BlueOf(color)) \div 256

\* Mutant: a state counts as lit when a component scaled by alpha is not 0.
isLit_Scaled(state) ==
    LET alpha == state.color.hi \div 256
        scaled(c) == IF alpha # 255 THEN (c * alpha) \div 255 ELSE c
    IN  \/ scaled(state.color.hi % 256) # 0
        \/ scaled(state.color.lo \div 256) # 0
        \/ scaled(state.color.lo % 256) # 0

\* Mutant: the alpha byte is not masked off.
isLit_WholeColor(state) ==
    state.color # [hi |-> 0, lo |-> 0]

\* Light.cpp:38-40
isLit(state) ==
    Color(state.color.hi % 256, state.color.lo) # Color(0, 0)

\* Mutant: the division by 255 is done as a shift by 8.
getScaledDutyPcts_Shift(brightness) ==
    [i \in 1..RAMP_SIZE |-> (BRIGHTNESS_RAMP[i] * brightness) \div 256]

\* Mutant: the percentages are rounded to the nearest integer.
getScaledDutyPcts_Rounded(brightness) ==
    [i \in 1..RAMP_SIZE |-> (2 * BRIGHTNESS_RAMP[i] * brightness + 255) \div 510]

\* Light.cpp:42-52: the comma-joined list, as the list of its integers.
getScaledDutyPcts(brightness) ==
    [i \in 1..RAMP_SIZE |-> CDiv(BRIGHTNESS_RAMP[i] * brightness, 255)]

-----------------------------------------------------------------------------
(* The hardware: io = [leds, rgbBlink, lcd, log]                           *)

Leds == {"red", "green", "blue"}
Attrs == {"brightness", "duty_pcts", "start_idx", "pause_lo", "pause_hi",
          "ramp_step_ms", "blink"}

\* Every attribute file of the three channels, the blink-start flag, the panel.
Files == (Leds \X Attrs) \cup {<<"rgb_blink">>, <<"lcd_backlight">>}

\* Led::mIndex of the three channels.
mIndex == [red |-> 0, green |-> 1, blue |-> 2]

\* Light.cpp:76-84: every stream of the channel is good.
operator_bool(led) == \A a \in Attrs : <<led, a>> \in opened

IO == [leds |-> leds, rgbBlink |-> rgbBlink, lcd |-> lcd, log |-> log]

\* stream << value << std::endl on an Led attribute; a stream whose open
\* failed has its failbit set and drops the line.
WriteLed(io, led, attr, line) ==
    IF <<led, attr>> \in opened
    THEN [io EXCEPT !.leds[led][attr] = line,
                    !.log = Append(@, <<led, attr, line>>)]
    ELSE io

\* mRgbBlink << value << std::endl
WriteRgbBlink(io, value) ==
    IF <<"rgb_blink">> \in opened
    THEN [io EXCEPT !.rgbBlink = <<value>>,
                    !.log = Append(@, <<"rgb_blink", <<value>>>>)]
    ELSE io

\* mLcdBacklight.first << value << std::endl
WriteLcd(io, value) ==
    IF <<"lcd_backlight">> \in opened
    THEN [io EXCEPT !.lcd = <<value>>,
                    !.log = Append(@, <<"lcd_backlight", <<value>>>>)]
    ELSE io

\* Mutant: blink mode is left alone when the channel already reads 0.
setBrightness_SkipsUnchanged(io, led, value) ==
    LET w == IF io.leds[led]["blink"] = <<0>>
             THEN io ELSE WriteLed(io, led, "blink", <<0>>)
    IN  WriteLed(w, led, "brightness", <<value>>)

\* Mutant: the brightness is written before blink mode is disabled.
setBrightness_BrightnessFirst(io, led, value) ==
    WriteLed(WriteLed(io, led, "brightness", <<value>>), led, "blink", <<0>>)

\* Light.cpp:96-100
setBrightness(io, led, value) ==
    WriteLed(WriteLed(io, led, "blink", <<0>>), led, "brightness", <<value>>)

\* Led::off(): the channel fully off, steady.
off(io, led) == setBrightness(io, led, 0)

\* Mutant: the step duration of a short on-time is rounded up.
RampTiming_RoundsUp(onMs) ==
    IF RAMP_STEP_DURATION * RAMP_SIZE * 2 > onMs
    THEN [stepDuration |-> CDiv(onMs + RAMP_SIZE * 2 - 1, RAMP_SIZE * 2),
          pauseHi |-> 0]
    ELSE [stepDuration |-> RAMP_STEP_DURATION,
          pauseHi |-> onMs - RAMP_STEP_DURATION * RAMP_SIZE * 2]

\* Mutant: the step duration is not recomputed for a short on-time.
RampTiming_NoFallback(onMs) ==
    [stepDuration |-> RAMP_STEP_DURATION,
     pauseHi |-> Sub32(onMs, RAMP_STEP_DURATION * RAMP_SIZE * 2)]

\* Light.cpp:103-108: the step duration and the high pause of a ramp.
RampTiming(onMs) ==
    LET stepDuration == RAMP_STEP_DURATION
        pauseHi == Sub32(onMs, stepDuration * RAMP_SIZE * 2)
    IN  IF stepDuration * RAMP_SIZE * 2 > onMs
        THEN [stepDuration |-> CDiv(onMs, RAMP_SIZE * 2), pauseHi |-> 0]
        ELSE [stepDuration |-> stepDuration, pauseHi |-> pauseHi]

\* Light.cpp:102-115
setBlink(io, led, brightness, onMs, offMs) ==
    LET t  == RampTiming(onMs)
        w1 == WriteLed(io, led, "start_idx", <<mIndex[led] * RAMP_SIZE>>)
        w2 == WriteLed(w1, led, "duty_pcts", getScaledDutyPcts(brightness))
        w3 == WriteLed(w2, led, "pause_lo", <<offMs>>)
        w4 == WriteLed(w3, led, "pause_hi", <<t.pauseHi>>)
    IN  WriteLed(w4, led, "ramp_step_ms", <<t.stepDuration>>)

Commit(io) ==
    /\ leds' = io.leds
    /\ rgbBlink' = io.rgbBlink
    /\ lcd' = io.lcd
    /\ log' = io.log

-----------------------------------------------------------------------------
(* The controller                                                          *)

\* android.hardware.light@2.0 Type
Types == {"BACKLIGHT", "KEYBOARD", "BUTTONS", "BATTERY", "NOTIFICATIONS",
          "ATTENTION", "BLUETOOTH", "WIFI"}

\* Light.cpp:126-133: the handler registered for each role.
mLights == [ATTENTION     |-> "setAttentionLight",
            BACKLIGHT     |-> "setLcdBacklight",
            BATTERY       |-> "setBatteryLight",
            NOTIFICATIONS |-> "setNotificationLight"]

\* Light.cpp:149-159: the keys of mLights.
getSupportedTypes == DOMAIN mLights

\* Mutant: the lookup misses the battery role.
setLightStatus_NoBattery(type) ==
    IF type \notin (DOMAIN mLights \ {"BATTERY"})
    THEN "LIGHT_NOT_SUPPORTED" ELSE "SUCCESS"

\* Light.cpp:138-146: the status of setLight(type, _).
setLightStatus(type) ==
    IF type \notin DOMAIN mLights THEN "LIGHT_NOT_SUPPORTED" ELSE "SUCCESS"

\* Mutant: the attention state is asked before the notification state.
setSpeakerBatteryLightLocked_AttentionFirst ==
    IF isLit(mAttentionState)
    THEN [lit |-> TRUE, state |-> mAttentionState]
    ELSE IF isLit(mNotificationState)
    THEN [lit |-> TRUE, state |-> mNotificationState]
    ELSE IF isLit(mBatteryState)
    THEN [lit |-> TRUE, state |-> mBatteryState]
    ELSE [lit |-> FALSE, state |-> InitialLightState]

\* Light.cpp:196-202: the state setSpeakerBatteryLightLocked hands to
\* setSpeakerLightLocked, or none (lights off).
setSpeakerBatteryLightLocked ==
    IF isLit(mNotificationState)
    THEN [lit |-> TRUE, state |-> mNotificationState]
    ELSE IF isLit(mAttentionState)
    THEN [lit |-> TRUE, state |-> mAttentionState]
    ELSE IF isLit(mBatteryState)
    THEN [lit |-> TRUE, state |-> mBatteryState]
    ELSE [lit |-> FALSE, state |-> InitialLightState]

\* Mutant: the division by 0xff is done as a shift by 8.
ScaleComponent_Shift(component, alpha) ==
    IF alpha # 255 THEN (component * alpha) \div 256 ELSE component

\* Light.cpp:223-227 for one component: int * uint32_t / 0xff.
ScaleComponent(component, alpha) ==
    IF alpha # 255 THEN (component * alpha) \div 255 ELSE component

\* Light.cpp:211-227: the locals of setSpeakerLightLocked(state).
Locals(state) ==
    LET alpha == AlphaOf(state.color)
    IN  [state |-> state,
         red   |-> ScaleComponent(RedOf(state.color), alpha),
         green |-> ScaleComponent(GreenOf(state.color), alpha),
         blue  |-> ScaleComponent(BlueOf(state.color), alpha)]

NoLocals == Locals(InitialLightState)

\* Light.cpp:170-178: the value setLcdBacklight writes.
LcdBrightness(state, max) ==
    LET brightness == rgbToBrightness(state)
    IN  IF max # MAX_BRIGHTNESS
        THEN Div255(Mul32(brightness, max))
        ELSE brightness

-----------------------------------------------------------------------------
(* Inputs of the callers                                                   *)

\* 0x00000000 steady: off.
StateOff == LightState(Color(0, 0), "NONE", 0, 0)
\* 0x80FF0000 steady: red dimmed by alpha 128.
StateDimRed == LightState(Color(33023, 0), "NONE", 0, 0)
\* 0xFF00FF00 timed 1000/500: opaque green, blinking.
StateGreenBlink == LightState(Color(65280, 65280), "TIMED", 1000, 500)
\* 0x40FFFFFF with flash mode HARDWARE: white dimmed by alpha 64.
StateDimWhite == LightState(Color(16639, 65535), "HARDWARE", 0, 0)
\* 0x00FFFFFF steady: white (full panel brightness).
StateWhite == LightState(Color(255, 65535), "NONE", 0, 0)

RgbTypes == {"NOTIFICATIONS", "ATTENTION", "BATTERY"}

\* The calls the concurrent callers make: every role of the shared LED with
\* the off state and a lit one (notifications: steady or blinking, attention:
\* blinking, battery: flash mode HARDWARE), the backlight, and every role
\* that has no handler.
Requests ==
    ({"NOTIFICATIONS"} \X {StateOff, StateDimRed, StateGreenBlink})
        \cup ({"ATTENTION"} \X {StateOff, StateGreenBlink})
        \cup ({"BATTERY"} \X {StateOff, StateDimWhite})
        \cup ({"BACKLIGHT"} \X {StateWhite})
        \cup ((Types \ DOMAIN mLights) \X {StateDimRed})

-----------------------------------------------------------------------------
(* Initial state: the controller as constructed, every caller idle         *)

\* No call under way, or the handler has read its argument.
NoArg == [type |-> "none", state |-> InitialLightState]

\* No call recorded.
NoHist == [calls |-> 0, type |-> "none", state |-> InitialLightState,
           log |-> <<>>, hw |-> <<>>, stored |-> <<>>]

\* The controller after Light::Light, whatever files opened.
Controller ==
    /\ mLock = 0
    /\ mNotificationState = InitialLightState
    /\ mAttentionState = InitialLightState
    /\ mBatteryState = InitialLightState
    /\ leds = [l \in Leds |-> [a \in Attrs |-> <<>>]]
    /\ rgbBlink = <<>>
    /\ lcd = <<>>
    /\ log = <<>>
    /\ ret = [t \in Threads |-> "none"]
    /\ frame = [t \in Threads |-> NoLocals]
    /\ lastLocked = [r \in RgbTypes |-> InitialLightState]
    /\ hist = NoHist

\* Every attribute file opened.
Constructed ==
    /\ Controller
    /\ opened = Files

Init ==
    /\ Constructed
    /\ maxBrightness = MAX_BRIGHTNESS
    /\ pc = [t \in Threads |-> "idle"]
    /\ arg = [t \in Threads |-> NoArg]

-----------------------------------------------------------------------------
(* setLight, one action per statement that another caller can observe      *)

hwVars == <<leds, rgbBlink, lcd, log>>
storedVars == <<mNotificationState, mAttentionState, mBatteryState>>
\* Left alone by every step of setLight: the controller's fixed parts and
\* the record of a repeated call.
fixedVars == <<maxBrightness, opened, hist>>

\* Light.cpp:137-144: a caller enters setLight(type, state) and looks the
\* role up in mLights; it returns at once when the role has no handler, and
\* otherwise enters the handler, whose first statement takes the lock.
setLight(t, type, state) ==
    /\ pc[t] = "idle"
    /\ IF setLightStatus(type) = "LIGHT_NOT_SUPPORTED"
       THEN /\ ret' = [ret EXCEPT ![t] = "LIGHT_NOT_SUPPORTED"]
            /\ UNCHANGED <<pc, arg>>
       ELSE /\ ret' = [ret EXCEPT ![t] = "none"]
            /\ pc' = [pc EXCEPT ![t] = "lock"]
            /\ arg' = [arg EXCEPT ![t] = [type |-> type, state |-> state]]
    /\ UNCHANGED <<mLock, storedVars, hwVars, frame, lastLocked, fixedVars>>

\* Mutant: the handler does not wait for the lock to be free.
Lock_NoExclusion(t) ==
    /\ pc[t] = "lock"
    /\ mLock' = t
    /\ pc' = [pc EXCEPT ![t] = mLights[arg[t].type]]
    /\ log' = <<>>
    /\ lastLocked' = IF arg[t].type \in RgbTypes
                     THEN [lastLocked EXCEPT ![arg[t].type] = arg[t].state]
                     ELSE lastLocked
    /\ UNCHANGED <<storedVars, leds, rgbBlink, lcd, arg, ret, frame, fixedVars>>

\* Light.cpp:162, 168, 184, 190: std::lock_guard<std::mutex> lock(mLock).
Lock(t) ==
    /\ pc[t] = "lock"
    /\ mLock = 0
    /\ mLock' = t
    /\ pc' = [pc EXCEPT ![t] = mLights[arg[t].type]]
    /\ log' = <<>>
    /\ lastLocked' = IF arg[t].type \in RgbTypes
                     THEN [lastLocked EXCEPT ![arg[t].type] = arg[t].state]
                     ELSE lastLocked
    /\ UNCHANGED <<storedVars, leds, rgbBlink, lcd, arg, ret, frame, fixedVars>>

\* Light.cpp:163
setAttentionLight(t) ==
    /\ pc[t] = "setAttentionLight"
    /\ mAttentionState' = arg[t].state
    /\ pc' = [pc EXCEPT ![t] = "arbitrate"]
    /\ arg' = [arg EXCEPT ![t] = NoArg]
    /\ UNCHANGED <<mLock, mNotificationState, mBatteryState, hwVars, ret,
                   frame, lastLocked, fixedVars>>

\* Light.cpp:185
setBatteryLight(t) ==
    /\ pc[t] = "setBatteryLight"
    /\ mBatteryState' = arg[t].state
    /\ pc' = [pc EXCEPT ![t] = "arbitrate"]
    /\ arg' = [arg EXCEPT ![t] = NoArg]
    /\ UNCHANGED <<mLock, mNotificationState, mAttentionState, hwVars, ret,
                   frame, lastLocked, fixedVars>>

\* Mutant: the store of the notification state resets the attention state.
setNotificationLight_ClearsAttention(t) ==
    /\ pc[t] = "setNotificationLight"
    /\ mNotificationState' = arg[t].state
    /\ mAttentionState' = InitialLightState
    /\ pc' = [pc EXCEPT ![t] = "arbitrate"]
    /\ arg' = [arg EXCEPT ![t] = NoArg]
    /\ UNCHANGED <<mLock, mBatteryState, hwVars, ret, frame, lastLocked,
                   fixedVars>>

\* Light.cpp:191
setNotificationLight(t) ==
    /\ pc[t] = "setNotificationLight"
    /\ mNotificationState' = arg[t].state
    /\ pc' = [pc EXCEPT ![t] = "arbitrate"]
    /\ arg' = [arg EXCEPT ![t] = NoArg]
    /\ UNCHANGED <<mLock, mAttentionState, mBatteryState, hwVars, ret,
                   frame, lastLocked, fixedVars>>

\* Mutant: the backlight handler also resets the blink-start flag.
setLcdBacklight_ResetsBlink(t) ==
    /\ pc[t] = "setLcdBacklight"
    /\ Commit(WriteRgbBlink(
                  WriteLcd(IO, LcdBrightness(arg[t].state, maxBrightness)), 0))
    /\ pc' = [pc EXCEPT ![t] = "unlock"]
    /\ UNCHANGED <<mLock, storedVars, arg, ret, frame, lastLocked, fixedVars>>

\* Light.cpp:170-180
setLcdBacklight(t) ==
    /\ pc[t] = "setLcdBacklight"
    /\ Commit(WriteLcd(IO, LcdBrightness(arg[t].state, maxBrightness)))
    /\ pc' = [pc EXCEPT ![t] = "unlock"]
    /\ UNCHANGED <<mLock, storedVars, arg, ret, frame, lastLocked, fixedVars>>

\* Light.cpp:196-203 and 211-227: pick the effective state, enter
\* setSpeakerLightLocked with it and compute its locals.
Arbitrate(t) ==
    /\ pc[t] = "arbitrate"
    /\ LET pick == setSpeakerBatteryLightLocked
       IN  IF pick.lit
           THEN /\ frame' = [frame EXCEPT ![t] = Locals(pick.state)]
                /\ pc' = [pc EXCEPT ![t] = "blink0"]
           ELSE /\ frame' = frame
                /\ pc' = [pc EXCEPT ![t] = "off_red"]
    /\ UNCHANGED <<mLock, storedVars, hwVars, arg, ret, lastLocked, fixedVars>>

\* Mutant: the blink-start flag is raised before the channels are configured.
DisableBlink_StartsEarly(t) ==
    /\ pc[t] = "blink0"
    /\ Commit(WriteRgbBlink(IO, 1))
    /\ pc' = [pc EXCEPT ![t] = "red"]
    /\ UNCHANGED <<mLock, storedVars, arg, ret, frame, lastLocked, fixedVars>>

\* Light.cpp:230
DisableBlink(t) ==
    /\ pc[t] = "blink0"
    /\ Commit(WriteRgbBlink(IO, 0))
    /\ pc' = [pc EXCEPT ![t] = "red"]
    /\ UNCHANGED <<mLock, storedVars, arg, ret, frame, lastLocked, fixedVars>>

\* The order of the channels in Light.cpp:204-206, 234-236 and 242-244.
NextLed(led) == [red |-> "green", green |-> "blue", blue |-> "end"][led]

\* Light.cpp:232-245: one channel of the switch on state.flashMode.
DriveLed(t, led) ==
    /\ pc[t] = led
    /\ LET f == frame[t]
       IN  IF f.state.flashMode = "TIMED"
           THEN /\ Commit(setBlink(IO, led, f[led],
                                   f.state.flashOnMs, f.state.flashOffMs))
                /\ pc' = [pc EXCEPT ![t] = IF NextLed(led) = "end"
                                           THEN "blink1" ELSE NextLed(led)]
           ELSE /\ Commit(setBrightness(IO, led, f[led]))
                /\ pc' = [pc EXCEPT ![t] = IF NextLed(led) = "end"
                                           THEN "unlock" ELSE NextLed(led)]
    /\ UNCHANGED <<mLock, storedVars, arg, ret, frame, lastLocked, fixedVars>>

\* Light.cpp:238
StartBlink(t) ==
    /\ pc[t] = "blink1"
    /\ Commit(WriteRgbBlink(IO, 1))
    /\ pc' = [pc EXCEPT ![t] = "unlock"]
    /\ UNCHANGED <<mLock, storedVars, arg, ret, frame, lastLocked, fixedVars>>

\* Light.cpp:204-206: one channel of the lights-off branch.
OffLed(t, led) ==
    /\ pc[t] = "off_" \o led
    /\ Commit(off(IO, led))
    /\ pc' = [pc EXCEPT ![t] = IF NextLed(led) = "end"
                               THEN "unlock" ELSE "off_" \o NextLed(led)]
    /\ UNCHANGED <<mLock, storedVars, arg, ret, frame, lastLocked, fixedVars>>

\* Mutant: the handler returns without releasing the lock.
Unlock_KeepsLock(t) ==
    /\ pc[t] = "unlock"
    /\ mLock' = mLock
    /\ ret' = [ret EXCEPT ![t] = "SUCCESS"]
    /\ pc' = [pc EXCEPT ![t] = "idle"]
    /\ arg' = [arg EXCEPT ![t] = NoArg]
    /\ frame' = [frame EXCEPT ![t] = NoLocals]
    /\ UNCHANGED <<storedVars, hwVars, lastLocked, fixedVars>>

\* The lock_guard's destructor, then Light.cpp:146.
Unlock(t) ==
    /\ pc[t] = "unlock"
    /\ mLock' = 0
    /\ ret' = [ret EXCEPT ![t] = "SUCCESS"]
    /\ pc' = [pc EXCEPT ![t] = "idle"]
    /\ arg' = [arg EXCEPT ![t] = NoArg]
    /\ frame' = [frame EXCEPT ![t] = NoLocals]
    /\ UNCHANGED <<storedVars, hwVars, lastLocked, fixedVars>>

\* The steps of a call under way.
Step(t) ==
    \/ Lock(t)
    \/ setAttentionLight(t)
    \/ setBatteryLight(t)
    \/ setNotificationLight(t)
    \/ setLcdBacklight(t)
    \/ Arbitrate(t)
    \/ DisableBlink(t)
    \/ \E led \in Leds : DriveLed(t, led)
    \/ StartBlink(t)
    \/ \E led \in Leds : OffLed(t, led)
    \/ Unlock(t)

Next ==
    \E t \in Threads :
        \/ \E r \in Requests : setLight(t, r[1], r[2])
        \/ Step(t)

Spec == Init /\ [][Next]_vars

\* The steps of a handler once it holds the lock.
Run(t) == pc[t] # "lock" /\ Step(t)

\* Fair scheduling: a handler that holds the lock keeps running, and a
\* caller that finds the lock free again and again gets it in the end.
Fairness ==
    \A t \in Threads : WF_vars(Run(t)) /\ SF_vars(Lock(t))

SpecFair == Spec /\ Fairness

-----------------------------------------------------------------------------
(* The first call after construction, with its input drawn from a wide set *)

\* A call of thread t that waits in arg[t] to be made, once.
Enter(t) ==
    /\ arg[t] # NoArg
    /\ ret[t] = "none"
    /\ setLight(t, arg[t].type, arg[t].state)

FirstCall(requests) ==
    /\ Constructed
    /\ pc = [t \in Threads |-> "idle"]
    /\ \E r \in requests :
          arg = [t \in Threads |->
                    IF t = 1 THEN [type |-> r[1], state |-> r[2]] ELSE NoArg]

\* Opaque colors (x, 255 - x, 1) for every x in 0..255, blinking 1000/500:
\* the red and the green channel get every brightness.
BlinkStates ==
    {LightState(Color(65280 + x, (255 - x) * 256 + 1), "TIMED", 1000, 500) :
        x \in 0..255}

\* flashOnMs and flashOffMs are int32_t.
OnValues == {-2147483647 - 1, -2147483647, -801, -17, -16, -1, 0, 1, 15, 16,
             17, 400, 799, 800, 801, 1000, 2147483647}
OffValues == {-2147483647 - 1, -1, 0, 500, 2147483647}

\* Opaque green 0xFF00FF00 with every pair of on and off times.
TimingStates ==
    {LightState(Color(65280, 65280), "TIMED", on, off_) :
        on \in OnValues, off_ \in OffValues}

AlphaValues == {0, 1, 2, 64, 127, 128, 129, 200, 254, 255}

\* Colors (x, 255 - x, (3x + 1) mod 256) under every alpha of AlphaValues,
\* steady, and the colors 0x80FF0000 and 0xFFFF0000 in every flash mode.
SteadyStates ==
    {LightState(Color(alpha * 256 + x, (255 - x) * 256 + ((3 * x + 1) % 256)),
                "NONE", 0, 0) : x \in 0..255, alpha \in AlphaValues}
    \cup {LightState(Color(hi, 0), mode, 400, 0) :
            hi \in {33023, 65535}, mode \in {"NONE", "TIMED", "HARDWARE"}}

InitLed ==
    /\ FirstCall({"NOTIFICATIONS"} \X (BlinkStates \cup TimingStates \cup SteadyStates))
    /\ maxBrightness = MAX_BRIGHTNESS

NextLedCall ==
    \E t \in Threads :
        \/ Enter(t)
        \/ Lock(t)
        \/ setNotificationLight(t)
        \/ Arbitrate(t)
        \/ DisableBlink(t)
        \/ \E led \in Leds : DriveLed(t, led)
        \/ StartBlink(t)
        \/ Unlock(t)

\* One setLight(NOTIFICATIONS, state) on the controller as constructed.
SpecLed == InitLed /\ [][NextLedCall]_vars

\* mLcdBacklight.second is uint32_t; the panel's maximum is read at start-up.
MaxBrightnessValues == {1, 100, 128, 254, 255, 256, 1023, 4095, 65535,
                        16843009, 16843010, 2147483647}

ByteValues == {0, 1, 127, 128, 255}

\* Colors with every component and the alpha byte from ByteValues.
BacklightStates ==
    {LightState(Color(a * 256 + r, g * 256 + b), "NONE", 0, 0) :
        a \in ByteValues, r \in ByteValues, g \in ByteValues, b \in ByteValues}

InitBacklight ==
    /\ FirstCall({"BACKLIGHT"} \X BacklightStates)
    /\ maxBrightness \in MaxBrightnessValues

NextBacklightCall ==
    \E t \in Threads :
        \/ Enter(t)
        \/ Lock(t)
        \/ setLcdBacklight(t)
        \/ Unlock(t)

\* One setLight(BACKLIGHT, state) on the controller as constructed.
SpecBacklight == InitBacklight /\ [][NextBacklightCall]_vars

-----------------------------------------------------------------------------
(* One caller that makes the same call twice in a row                      *)

\* What hist holds besides the call.
histFrame == <<mLock, storedVars, hwVars, pc, arg, ret, frame, lastLocked,
               maxBrightness, opened>>

\* The call that has just entered its handler is taken as the first of two:
\* record it, and the stored states it finds.
FirstOfTwo ==
    /\ hist.calls = 0
    /\ pc[1] = "lock"
    /\ hist' = [NoHist EXCEPT !.calls = 1, !.type = arg[1].type,
                              !.state = arg[1].state,
                              !.stored = <<mNotificationState, mAttentionState,
                                           mBatteryState>>]
    /\ UNCHANGED histFrame

\* The first call has returned: record its writes, the hardware and the
\* stored states it left.
Left ==
    /\ hist.calls = 1
    /\ pc[1] = "idle"
    /\ hist' = [hist EXCEPT !.calls = 2,
                            !.log = log,
                            !.hw = <<leds, rgbBlink, lcd>>,
                            !.stored = <<mNotificationState, mAttentionState,
                                         mBatteryState>>]
    /\ UNCHANGED histFrame

\* The same call again: the same role, the same state.
SecondOfTwo ==
    /\ hist.calls = 2
    /\ setLight(1, hist.type, hist.state)

\* The caller goes on to other calls.
Forget ==
    /\ hist.calls = 2
    /\ pc[1] = "idle"
    /\ hist' = NoHist
    /\ UNCHANGED histFrame

NextRepeat ==
    \/ \E r \in Requests : hist.calls = 0 /\ setLight(1, r[1], r[2])
    \/ FirstOfTwo
    \/ Step(1)
    \/ Left
    \/ SecondOfTwo
    \/ Forget

SpecRepeat == Init /\ [][NextRepeat]_vars

-----------------------------------------------------------------------------
(* Two callers, one call each: a lit lower role and any state of a higher  *)

\* Colors with every byte from ByteValues, steady or with flash mode
\* HARDWARE, and blinking colors with every alpha and red byte of ByteValues.
MaskStates ==
    BacklightStates
        \cup {LightState(Color(a * 256 + r, 0), "TIMED", 1000, 500) :
                a \in ByteValues, r \in ByteValues}
        \cup {LightState(Color(a * 256, g * 256), "HARDWARE", 0, 0) :
                a \in ByteValues, g \in ByteValues}

InitMask ==
    /\ Constructed
    /\ maxBrightness = MAX_BRIGHTNESS
    /\ pc = [t \in Threads |-> "idle"]
    /\ \E lower \in {<<"BATTERY", StateDimWhite>>, <<"ATTENTION", StateGreenBlink>>} :
       \E higher \in ({"NOTIFICATIONS"} \X MaskStates)
                        \cup ({"ATTENTION"} \X {StateOff, StateWhite}) :
          /\ lower[1] # higher[1]
          /\ arg = [t \in Threads |->
                      IF t = 1 THEN [type |-> lower[1], state |-> lower[2]]
                      ELSE IF t = 2 THEN [type |-> higher[1], state |-> higher[2]]
                      ELSE NoArg]

NextMask ==
    \E t \in Threads :
        \/ Enter(t)
        \/ Lock(t)
        \/ setAttentionLight(t)
        \/ setBatteryLight(t)
        \/ setNotificationLight(t)
        \/ Arbitrate(t)
        \/ DisableBlink(t)
        \/ \E led \in Leds : DriveLed(t, led)
        \/ StartBlink(t)
        \/ \E led \in Leds : OffLed(t, led)
        \/ Unlock(t)

SpecMask == InitMask /\ [][NextMask]_vars

-----------------------------------------------------------------------------
(* The first call on a controller some of whose files failed to open       *)

\* What the opens of Led::Led and of the controller's two streams leave:
\* every file open, one attribute of one channel missing, a channel
\* missing altogether, the blink-start flag missing.
OpenOutcomes ==
    {Files}
        \cup {Files \ {<<l, a>>} : l \in Leds, a \in Attrs}
        \cup {Files \ ({l} \X Attrs) : l \in Leds}
        \cup {Files \ {<<"rgb_blink">>}}

InitOpen ==
    /\ Controller
    /\ opened \in OpenOutcomes
    /\ maxBrightness = MAX_BRIGHTNESS
    /\ pc = [t \in Threads |-> "idle"]
    /\ \E state \in {StateDimRed, StateGreenBlink, StateDimWhite} :
          arg = [t \in Threads |->
                    IF t = 1 THEN [type |-> "NOTIFICATIONS", state |-> state]
                    ELSE NoArg]

NextOpen ==
    \E t \in Threads :
        \/ Enter(t)
        \/ Lock(t)
        \/ setNotificationLight(t)
        \/ Arbitrate(t)
        \/ DisableBlink(t)
        \/ \E led \in Leds : DriveLed(t, led)
        \/ StartBlink(t)
        \/ Unlock(t)

SpecOpen == InitOpen /\ [][NextOpen]_vars

-----------------------------------------------------------------------------
(* What the claims speak of                                                *)

\* A stored state with an RGB bit set.
HasRgb(state) == state.color.hi % 256 # 0 \/ state.color.lo # 0

\* The stored state that has priority: notifications, attention, battery.
AnyLit ==
    HasRgb(mNotificationState) \/ HasRgb(mAttentionState) \/ HasRgb(mBatteryState)

EffectiveState ==
    IF HasRgb(mNotificationState) THEN mNotificationState
    ELSE IF HasRgb(mAttentionState) THEN mAttentionState
    ELSE mBatteryState

\* The component of a state that drives a channel: byte 2, 1 or 0 of the
\* color, times alpha / 255 when alpha is not 0xff.
Component(state, led) ==
    LET byte == CASE led = "red"   -> state.color.hi % 256
                  [] led = "green" -> state.color.lo \div 256
                  [] led = "blue"  -> state.color.lo % 256
        alpha == state.color.hi \div 256
    IN  IF alpha = 255 THEN byte ELSE (byte * alpha) \div 255

\* The five ramp attributes of a channel as a blinking state sets them.
RampOf(state, led) ==
    [start_idx    |-> <<8 * mIndex[led]>>,
     duty_pcts    |-> [i \in 1..8 |->
                         (BRIGHTNESS_RAMP[i] * Component(state, led)) \div 255],
     pause_lo     |-> <<state.flashOffMs>>,
     pause_hi     |-> <<IF state.flashOnMs >= 800
                        THEN state.flashOnMs - 800 ELSE 0>>,
     ramp_step_ms |-> <<IF state.flashOnMs >= 800 THEN 50
                        ELSE IF state.flashOnMs >= 0
                        THEN state.flashOnMs \div 16
                        ELSE (state.flashOnMs + 15) \div 16>>]

HoldsRamp(led, state) ==
    \A a \in DOMAIN RampOf(state, led) : leds[led][a] = RampOf(state, led)[a]

HoldsSteady(led, value) ==
    leds[led]["blink"] = <<0>> /\ leds[led]["brightness"] = <<value>>

\* The channel carries what a stored state asks of it.
Reflects(led, state) ==
    IF ~HasRgb(state) THEN HoldsSteady(led, 0)
    ELSE IF state.flashMode = "TIMED" THEN HoldsRamp(led, state)
    ELSE HoldsSteady(led, Component(state, led))

\* A call for the shared LED has written the channels.
LedWritten == \E a \in Attrs : leds["red"][a] # <<>>

InSection(t) == pc[t] \notin {"idle", "lock"}

-----------------------------------------------------------------------------
\* C1: whenever no call is inside its critical section and the shared LED
\* has been driven, the three channels carry what the stored NOTIFICATIONS
\* state asks if it is lit, else the stored ATTENTION state if it is lit,
\* else the stored BATTERY state if it is lit; with none of them lit every
\* channel has blink-enable 0 and brightness 0.
C1_PriorityOutput ==
    (mLock = 0 /\ LedWritten) =>
        IF HasRgb(mNotificationState)
        THEN \A led \in Leds : Reflects(led, mNotificationState)
        ELSE IF HasRgb(mAttentionState)
        THEN \A led \in Leds : Reflects(led, mAttentionState)
        ELSE IF HasRgb(mBatteryState)
        THEN \A led \in Leds : Reflects(led, mBatteryState)
        ELSE \A led \in Leds : HoldsSteady(led, 0)

\* C1 witness: the three roles are lit with different states, no call is
\* under way and the channels show the notification.
C1_Witness ==
    /\ mLock = 0
    /\ \A t \in Threads : pc[t] = "idle"
    /\ mNotificationState = StateDimRed
    /\ mAttentionState = StateGreenBlink
    /\ mBatteryState = StateDimWhite
    /\ leds["red"]["brightness"] = <<128>>

-----------------------------------------------------------------------------
\* C2: the roles getSupportedTypes reports are ATTENTION, BACKLIGHT, BATTERY
\* and NOTIFICATIONS; a setLight call for a role outside that set returns
\* LIGHT_NOT_SUPPORTED at once, writing no hardware attribute and changing
\* none of the three stored states; a call for a role inside it enters the
\* role's handler and never returns LIGHT_NOT_SUPPORTED; and every call that
\* leaves a handler returns SUCCESS.
C2_NotSupportedExactly ==
    [][\A t \in Threads :
          /\ getSupportedTypes = {"ATTENTION", "BACKLIGHT", "BATTERY", "NOTIFICATIONS"}
          /\ \A r \in Requests :
                setLight(t, r[1], r[2]) =>
                    IF r[1] \in getSupportedTypes
                    THEN /\ pc'[t] = "lock"
                         /\ ret'[t] # "LIGHT_NOT_SUPPORTED"
                    ELSE /\ pc'[t] = "idle"
                         /\ ret'[t] = "LIGHT_NOT_SUPPORTED"
                         /\ UNCHANGED <<leds, rgbBlink, lcd, log>>
                         /\ UNCHANGED <<mNotificationState, mAttentionState,
                                        mBatteryState>>
          /\ (InSection(t) /\ pc'[t] = "idle") => ret'[t] = "SUCCESS"
          /\ ret'[t] = "LIGHT_NOT_SUPPORTED" => pc'[t] = "idle"
      ]_vars

\* C2 witness: one caller was refused and another served, with the LED
\* driven and a role lit.
C2_Witness ==
    /\ \E t \in Threads : ret[t] = "LIGHT_NOT_SUPPORTED"
    /\ \E t \in Threads : ret[t] = "SUCCESS"
    /\ LedWritten
    /\ AnyLit

-----------------------------------------------------------------------------
\* C3: a call holds the lock from its store of the role's state to its last
\* hardware write (every position between lock and unlock is under the
\* lock, so at most one call is there), and whenever the lock is free and
\* the shared LED has been driven, red, green and blue all carry what one
\* and the same stored role state asks: never one channel from one role and
\* another channel from another.
C3_NoTornOutput ==
    /\ \A t \in Threads : InSection(t) => mLock = t
    /\ (mLock = 0 /\ LedWritten) =>
          \E state \in {mNotificationState, mAttentionState, mBatteryState} :
              \A led \in Leds : Reflects(led, state)

\* C3 witness: the lock is free after a call, a second caller is about to
\* take it for another role, two roles are lit with different states and the
\* three channels show the notification.
C3_Witness ==
    /\ mLock = 0
    /\ \E t \in Threads : pc[t] = "lock" /\ arg[t].type = "BATTERY"
    /\ mNotificationState = StateDimRed
    /\ mAttentionState = StateGreenBlink
    /\ \A led \in Leds : Reflects(led, StateDimRed)
    /\ \E led \in Leds : ~Reflects(led, StateGreenBlink)

\* C4: once every call has returned, each role's stored state is the state
\* passed by the call for that role that took the lock last, and the shared
\* LED carries the priority arbitration of those states: the result of
\* running the calls one at a time in the order they took the lock.
C4_LastLockerWins ==
    (\A t \in Threads : pc[t] = "idle") =>
        LET n == lastLocked["NOTIFICATIONS"]
            a == lastLocked["ATTENTION"]
            b == lastLocked["BATTERY"]
            shown == IF HasRgb(n) THEN n ELSE IF HasRgb(a) THEN a ELSE b
        IN  /\ mNotificationState = n
            /\ mAttentionState = a
            /\ mBatteryState = b
            /\ LedWritten => \A led \in Leds : Reflects(led, shown)

\* C4 witness: every caller has returned with SUCCESS; the battery role was
\* shown steady, then the notification role took the LED over and blinks.
C4_Witness ==
    /\ \A t \in Threads : pc[t] = "idle" /\ ret[t] = "SUCCESS"
    /\ lastLocked["NOTIFICATIONS"] = StateGreenBlink
    /\ lastLocked["BATTERY"] = StateDimWhite
    /\ leds["red"]["brightness"] = <<64>>
    /\ \A led \in Leds : HoldsRamp(led, StateGreenBlink)

-----------------------------------------------------------------------------
\* The call of thread t is inside setSpeakerLightLocked, past line 230.
Applying(t) ==
    /\ pc[t] \in {"red", "green", "blue", "blink1", "unlock"}
    /\ HasRgb(frame[t].state)

\* The number of writes setSpeakerLightLocked has made for a blinking state
\* when the call stands at a position.
TimedWrites(p) ==
    CASE p = "red" -> 1 [] p = "green" -> 6 [] p = "blue" -> 11
      [] p = "blink1" -> 16 [] p = "unlock" -> 17

\* The file the i-th write of setSpeakerLightLocked goes to when the state
\* blinks: the flag, five attributes of red, of green, of blue, the flag.
TimedTarget(i) ==
    IF i = 1 \/ i = 17 THEN "rgb_blink"
    ELSE IF i <= 6 THEN "red" ELSE IF i <= 11 THEN "green" ELSE "blue"

\* C5: while a call applies an effective state whose flashMode is TIMED, its
\* writes are, in this order, blink-start flag 0, the ramp configuration of
\* red, of green, of blue, and last blink-start flag 1; the flag reads 0
\* until the three channels are configured, so it is never 1 while a channel
\* still holds the ramp configuration of an earlier state.
C5_TimedOrder ==
    \A t \in Threads :
        (Applying(t) /\ frame[t].state.flashMode = "TIMED") =>
            /\ frame[t].state = EffectiveState
            /\ Len(log) = TimedWrites(pc[t])
            /\ \A i \in 1..Len(log) : log[i][1] = TimedTarget(i)
            /\ log[1] = <<"rgb_blink", <<0>>>>
            /\ pc[t] # "unlock" => rgbBlink = <<0>>
            /\ pc[t] = "unlock" => log[17] = <<"rgb_blink", <<1>>>>
            /\ rgbBlink = <<1>> =>
                   \A led \in Leds : HoldsRamp(led, frame[t].state)

\* C5 witness: a blinking state has been applied (flag 1, all seventeen
\* writes made) over channels that showed a steady state before.
C5_Witness ==
    \E t \in Threads :
        /\ pc[t] = "unlock"
        /\ frame[t].state = StateGreenBlink
        /\ rgbBlink = <<1>>
        /\ Len(log) = 17
        /\ leds["red"]["brightness"] = <<128>>

\* C6: when a call has applied an effective state whose flashMode is not
\* TIMED, its writes were blink-start flag 0 and then, for red, green and
\* blue in turn, blink-enable 0 followed by the brightness, which is the
\* scaled component; the last value written to the blink-start flag is 0.
C6_SteadyWrites ==
    \A t \in Threads :
        (Applying(t) /\ pc[t] = "unlock" /\ frame[t].state.flashMode # "TIMED") =>
            LET state == frame[t].state
            IN  /\ state = EffectiveState
                /\ log = << <<"rgb_blink", <<0>>>>,
                            <<"red", "blink", <<0>>>>,
                            <<"red", "brightness", <<Component(state, "red")>>>>,
                            <<"green", "blink", <<0>>>>,
                            <<"green", "brightness", <<Component(state, "green")>>>>,
                            <<"blue", "blink", <<0>>>>,
                            <<"blue", "brightness", <<Component(state, "blue")>>>> >>
                /\ rgbBlink = <<0>>
                /\ \A led \in Leds : HoldsSteady(led, Component(state, led))

\* C6 witness: a state with flash mode HARDWARE has been applied over
\* channels that blinked before.
C6_Witness ==
    \E t \in Threads :
        /\ pc[t] = "unlock"
        /\ frame[t].state = StateDimWhite
        /\ Len(log) = 7
        /\ leds["red"]["start_idx"] # <<>>
        /\ leds["green"]["brightness"] = <<64>>

-----------------------------------------------------------------------------
\* A call has run setSpeakerLightLocked to its end for a blinking state.
Blinked(t) ==
    /\ pc[t] = "unlock"
    /\ HasRgb(frame[t].state)
    /\ frame[t].state.flashMode = "TIMED"

\* q is n / 16 truncated toward zero.
IsTruncatedSixteenth(q, n) ==
    /\ n - 16 * q \in -15..15
    /\ n >= 0 => 16 * q <= n
    /\ n < 0 => 16 * q >= n

\* C7: setBlink writes pause_lo = offMs; for onMs >= 800 it writes
\* ramp_step_ms = 50 and pause_hi = onMs - 800; for onMs < 800 it writes
\* ramp_step_ms = onMs / 16 truncated and pause_hi = 0.  onMs = 400 gives
\* step 25 and pause_hi 0, onMs = 1000 gives step 50 and pause_hi 200.
C7_RampTiming ==
    \A t \in Threads :
        Blinked(t) =>
            LET onMs == mNotificationState.flashOnMs
                offMs == mNotificationState.flashOffMs
            IN  \A led \in Leds :
                    LET step == leds[led]["ramp_step_ms"][1]
                        pauseHi == leds[led]["pause_hi"][1]
                    IN  /\ leds[led]["pause_lo"] = <<offMs>>
                        /\ onMs >= 800 => step = 50 /\ pauseHi = onMs - 800
                        /\ onMs < 800 =>
                               IsTruncatedSixteenth(step, onMs) /\ pauseHi = 0
                        /\ onMs = 400 => step = 25 /\ pauseHi = 0
                        /\ onMs = 1000 => step = 50 /\ pauseHi = 200

\* C7 witness: a blink with a negative on-time that is no multiple of 16
\* has been configured (truncation toward zero gives step -1).
C7_Witness ==
    \E t \in Threads :
        /\ Blinked(t)
        /\ mNotificationState.flashOnMs = -17
        /\ leds["blue"]["ramp_step_ms"] = <<-1>>
        /\ leds["blue"]["pause_lo"] = <<500>>

\* C8: the duty-cycle list setBlink writes has eight entries, the i-th being
\* curve[i] * brightness / 255 truncated, never rounded, for the curve
\* 0,12,25,37,50,72,85,100; brightness 255 gives the curve itself and
\* brightness 0 gives eight zeros.
C8_DutyPcts ==
    \A t \in Threads :
        Blinked(t) =>
            \A led \in Leds :
                LET brightness == Component(mNotificationState, led)
                    curve == <<0, 12, 25, 37, 50, 72, 85, 100>>
                    duty == leds[led]["duty_pcts"]
                IN  /\ Len(duty) = 8
                    /\ \A i \in 1..8 :
                          /\ 255 * duty[i] <= curve[i] * brightness
                          /\ curve[i] * brightness < 255 * (duty[i] + 1)
                    /\ brightness = 255 => duty = curve
                    /\ brightness = 0 => duty = <<0, 0, 0, 0, 0, 0, 0, 0>>

\* C8 witness: red blinks with brightness 128 and green with 127; rounding
\* would give 13 for 25 * 128 / 255 = 12.55, the list holds 12.
C8_Witness ==
    \E t \in Threads :
        /\ Blinked(t)
        /\ Component(mNotificationState, "red") = 128
        /\ leds["red"]["duty_pcts"] = <<0, 6, 12, 18, 25, 36, 42, 50>>
        /\ leds["green"]["duty_pcts"][8] = 49

\* The byte of a color that belongs to a channel.
ByteOf(color, led) ==
    CASE led = "red"   -> color.hi % 256
      [] led = "green" -> color.lo \div 256
      [] led = "blue"  -> color.lo % 256

\* The call of thread t is inside setSpeakerLightLocked.
Entered(t) ==
    /\ pc[t] \in {"blink0", "red", "green", "blue", "blink1", "unlock"}
    /\ HasRgb(frame[t].state)

\* C9: the components setSpeakerLightLocked drives are byte 2, 1 and 0 of
\* the color, unchanged when alpha (byte 3) is 0xff and component * alpha /
\* 255 truncated otherwise; each lies in 0..255 and does not exceed the
\* unscaled component.  0x80FF0000 gives red 128, green 0, blue 0, and
\* 0xFFFF0000 gives red 255.  A steady state puts them in the brightness
\* attributes.
C9_AlphaScaling ==
    \A t \in Threads :
        Entered(t) =>
            LET color == mNotificationState.color
                alpha == color.hi \div 256
            IN  /\ \A led \in Leds :
                      LET byte == ByteOf(color, led)
                          driven == frame[t][led]
                      IN  /\ alpha = 255 => driven = byte
                          /\ alpha # 255 =>
                                /\ 255 * driven <= byte * alpha
                                /\ byte * alpha < 255 * (driven + 1)
                          /\ driven \in 0..255
                          /\ driven <= byte
                          /\ (pc[t] = "unlock" /\ frame[t].state.flashMode # "TIMED")
                                => leds[led]["brightness"] = <<driven>>
                /\ color = Color(33023, 0) =>
                      frame[t].red = 128 /\ frame[t].green = 0 /\ frame[t].blue = 0
                /\ color = Color(65535, 0) => frame[t].red = 255

\* C9 witness: 0x80FF0000 steady has been applied: red 128, green 0, blue 0.
C9_Witness ==
    \E t \in Threads :
        /\ pc[t] = "unlock"
        /\ mNotificationState.color = Color(33023, 0)
        /\ mNotificationState.flashMode = "NONE"
        /\ leds["red"]["brightness"] = <<128>>
        /\ leds["green"]["brightness"] = <<0>>
        /\ leds["blue"]["brightness"] = <<0>>

-----------------------------------------------------------------------------
\* b * max / 255 truncated, in unbounded arithmetic, for b <= 255 and
\* max < 2^31 (computed in 16-bit limbs; the quotient is at most max).
ExactScale(b, max) ==
    LET low == b * (max % 65536)
        hi == b * (max \div 65536) + low \div 65536
        lo == low % 65536
    IN  (hi \div 255) * 65536 + ((hi % 255) * 65536 + lo) \div 255

\* The luma of a color: (77 R + 150 G + 29 B) >> 8, alpha ignored.
Luma(color) ==
    (77 * (color.hi % 256) + 150 * (color.lo \div 256) + 29 * (color.lo % 256))
        \div 256

\* The call of thread t has run setLcdBacklight(state).
BacklightDone(t) == pc[t] = "unlock" /\ arg[t].type = "BACKLIGHT"

\* C10: setLight(BACKLIGHT) writes b = (77 R + 150 G + 29 B) >> 8 to the
\* backlight handle when maxBrightness is 255 and b * maxBrightness / 255
\* truncated otherwise, whatever the alpha; the value written never exceeds
\* maxBrightness; 0x00FFFFFF gives b = 255, color 0 gives 0, and b = 255
\* with maxBrightness 128 gives 128.
C10_BacklightScaling ==
    \A t \in Threads :
        BacklightDone(t) =>
            LET color == arg[t].state.color
                b == Luma(color)
            IN  /\ lcd = <<IF maxBrightness = 255 THEN b
                           ELSE ExactScale(b, maxBrightness)>>
                /\ lcd[1] <= maxBrightness
                /\ color = Color(255, 65535) => b = 255
                /\ color = Color(0, 0) => b = 0
                /\ (b = 255 /\ maxBrightness = 128) => lcd = <<128>>

\* What holds of the value written: it is b when maxBrightness is 255 and
\* (b * maxBrightness mod 2^32) / 255 otherwise, which is b * maxBrightness
\* / 255 as long as the product stays below 2^32 (maxBrightness up to
\* 16843009), and it never exceeds maxBrightness.
BacklightScalingMod32 ==
    \A t \in Threads :
        BacklightDone(t) =>
            LET b == Luma(arg[t].state.color)
            IN  /\ lcd[1] <= maxBrightness
                /\ maxBrightness = 255 => lcd = <<b>>
                /\ (maxBrightness # 255 /\ maxBrightness <= 16843009) =>
                       lcd = <<ExactScale(b, maxBrightness)>>

-----------------------------------------------------------------------------
\* C11: when setLight(role, state) is called again right after it has
\* returned, from any state of the controller, the second call makes the
\* same hardware writes in the same order as the first, and the stored
\* states and the last line written to every hardware attribute are after
\* the second call what they were after the first.
C11_Idempotent ==
    (hist.calls = 2 /\ pc[1] \in {"unlock", "idle"}) =>
        /\ log = hist.log
        /\ <<leds, rgbBlink, lcd>> = hist.hw
        /\ <<mNotificationState, mAttentionState, mBatteryState>> = hist.stored

\* C11 witness: setLight(BATTERY, 0x40FFFFFF) has run a second time to its
\* last write, over channels that blinked before the first; each call made
\* the seven writes of a steady state.
C11_Witness ==
    /\ hist.calls = 2
    /\ pc[1] = "unlock"
    /\ hist.type = "BATTERY"
    /\ hist.state = StateDimWhite
    /\ Len(hist.log) = 7
    /\ Len(log) = 7
    /\ leds["red"]["start_idx"] # <<>>
    /\ leds["red"]["brightness"] = <<64>>

-----------------------------------------------------------------------------
\* The lower 24 bits of a color, as a number below 2^24.
Rgb24(color) == (color.hi % 256) * 65536 + color.lo

\* C12: the arbitration treats a stored state as lit exactly when the lower
\* 24 bits of its color are nonzero, whatever the alpha byte and the flash
\* fields: it takes the lights-off branch only with the three stored states
\* at RGB 0 (0xFF000000 counts as off), and the state it applies is the
\* first of NOTIFICATIONS, ATTENTION, BATTERY with a nonzero RGB part.
C12_LitIffRgb ==
    \A t \in Threads :
        /\ pc[t] \in {"off_red", "off_green", "off_blue"} =>
              /\ Rgb24(mNotificationState.color) = 0
              /\ Rgb24(mAttentionState.color) = 0
              /\ Rgb24(mBatteryState.color) = 0
        /\ pc[t] \in {"blink0", "red", "green", "blue", "blink1"} =>
              /\ Rgb24(frame[t].state.color) > 0
              /\ frame[t].state =
                    IF Rgb24(mNotificationState.color) > 0 THEN mNotificationState
                    ELSE IF Rgb24(mAttentionState.color) > 0 THEN mAttentionState
                    ELSE mBatteryState

\* C12 witness: NOTIFICATIONS was set to 0xFF000000 with flash mode TIMED
\* and no other role is lit: the call is in the lights-off branch.
C12_Witness ==
    \E t \in Threads :
        /\ pc[t] = "off_green"
        /\ mNotificationState = LightState(Color(65280, 0), "TIMED", 1000, 500)
        /\ leds["red"]["brightness"] = <<0>>

-----------------------------------------------------------------------------
\* C13: a channel of which at least one attribute file failed to open gets
\* no write at all from setBrightness or setBlink: none of its attributes
\* is ever written, so it is never left partially configured.
C13_InvalidNoWrite ==
    \A led \in Leds :
        ~operator_bool(led) => \A a \in Attrs : leds[led][a] = <<>>

\* What holds of a channel with a failed open: the writes to the attributes
\* that did not open are dropped one by one, the others are made.
DroppedPerAttribute ==
    \A led \in Leds : \A a \in Attrs :
        <<led, a>> \notin opened => leds[led][a] = <<>>

-----------------------------------------------------------------------------
-----------------------------------------------------------------------------
\* p / 255 rounded to the nearest integer, for p >= 0 (p / 255 is never
\* half-way between two integers: 2 p is even, 255 odd).
Nearest255(p) == (2 * p + 255) \div 510

\* C15, as claimed: for every brightness in 0..255 the i-th duty-cycle value
\* setBlink writes is curve[i] * brightness / 255 rounded to the nearest
\* integer, for the curve 0,12,25,37,50,72,85,100.
C15_DutyRounded ==
    \A t \in Threads :
        Blinked(t) =>
            \A led \in Leds : \A i \in 1..8 :
                leds[led]["duty_pcts"][i] =
                    Nearest255(<<0, 12, 25, 37, 50, 72, 85, 100>>[i]
                                   * Component(mNotificationState, led))

\* C15, amended: for every brightness in 0..255 the i-th duty-cycle value
\* setBlink writes is the integer quotient of curve[i] * brightness by 255,
\* the fraction dropped; it is the nearest integer when the remainder of
\* that division is below 128 and one less than the nearest integer
\* otherwise.
C15_DutyTruncated ==
    \A t \in Threads :
        Blinked(t) =>
            \A led \in Leds : \A i \in 1..8 :
                LET p == <<0, 12, 25, 37, 50, 72, 85, 100>>[i]
                             * Component(mNotificationState, led)
                    d == leds[led]["duty_pcts"][i]
                IN  /\ d = p \div 255
                    /\ p % 255 < 128 => d = Nearest255(p)
                    /\ p % 255 >= 128 => d = Nearest255(p) - 1

\* C15 witness: red blinks with brightness 200; 25 * 200 / 255 = 19.6 is
\* written as 19 and 85 * 200 / 255 = 66.7 as 66.
C15_Witness ==
    \E t \in Threads :
        /\ Blinked(t)
        /\ Component(mNotificationState, "red") = 200
        /\ leds["red"]["duty_pcts"] = <<0, 9, 19, 29, 39, 56, 66, 78>>

-----------------------------------------------------------------------------
\* C16: for every onMs >= 0 the ramp_step_ms and pause_hi that setBlink
\* writes are not negative and 16 * ramp_step_ms + pause_hi <= onMs: two
\* traversals of the 8-step ramp and the high pause fit in the on-time.
\* onMs = 0 gives ramp_step_ms 0 and pause_hi 0.
C16_RampFits ==
    \A t \in Threads :
        (Blinked(t) /\ mNotificationState.flashOnMs >= 0) =>
            \A led \in Leds :
                LET step == leds[led]["ramp_step_ms"][1]
                    pauseHi == leds[led]["pause_hi"][1]
                IN  /\ step >= 0
                    /\ pauseHi >= 0
                    /\ pauseHi <= mNotificationState.flashOnMs
                    /\ 16 * step <= mNotificationState.flashOnMs - pauseHi
                    /\ mNotificationState.flashOnMs = 0 => step = 0 /\ pauseHi = 0

\* C16 witness: a blink with on-time 799 has been configured: step 49, no
\* high pause, 784 of the 799 ms.
C16_Witness ==
    \E t \in Threads :
        /\ Blinked(t)
        /\ mNotificationState.flashOnMs = 799
        /\ leds["blue"]["ramp_step_ms"] = <<49>>
        /\ leds["blue"]["pause_hi"] = <<0>>

-----------------------------------------------------------------------------
\* The stored states <<notifications, attention, battery>> after role has
\* been set to state and nothing else has changed.
Replaced(stored, role, state) ==
    <<IF role = "NOTIFICATIONS" THEN state ELSE stored[1],
      IF role = "ATTENTION" THEN state ELSE stored[2],
      IF role = "BATTERY" THEN state ELSE stored[3]>>

\* The first state of a triple with an RGB bit set, the last if there is none.
FirstLit(stored) ==
    IF HasRgb(stored[1]) THEN stored[1]
    ELSE IF HasRgb(stored[2]) THEN stored[2] ELSE stored[3]

\* C17: when setLight(role, state) for BATTERY, NOTIFICATIONS or ATTENTION
\* has made its last write, the stored state of that role is the state
\* passed and the two other stored states are what they were before the
\* call; the channels carry the highest-priority lit one of these, so a
\* higher role set to an unlit color gives the LED to the state stored
\* earlier for the next lit role, which is not set again.
C17_OnlyOwnRole ==
    (hist.calls = 1 /\ pc[1] = "unlock" /\ hist.type \in RgbTypes) =>
        LET after == Replaced(hist.stored, hist.type, hist.state)
        IN  /\ <<mNotificationState, mAttentionState, mBatteryState>> = after
            /\ \A led \in Leds : Reflects(led, FirstLit(after))

\* C17 witness: with the notification shown steady and an attention blink
\* stored, NOTIFICATIONS has been set to off: the channels hold the ramp of
\* the attention state.
C17_Witness ==
    /\ hist.calls = 1
    /\ pc[1] = "unlock"
    /\ hist.type = "NOTIFICATIONS"
    /\ hist.state = StateOff
    /\ hist.stored[1] = StateDimRed
    /\ hist.stored[2] = StateGreenBlink
    /\ mAttentionState = StateGreenBlink
    /\ rgbBlink = <<1>>
    /\ \A led \in Leds : HoldsRamp(led, StateGreenBlink)

-----------------------------------------------------------------------------
\* C18: a step of a setLight(BACKLIGHT) call leaves the three stored states,
\* every attribute of red, green and blue and the blink-start flag as they
\* are, and the only write of the call goes to the backlight handle; a step
\* of a call for BATTERY, NOTIFICATIONS or ATTENTION never writes the
\* backlight handle.
C18_BacklightApart ==
    [][\A t \in Threads :
          pc'[t] # pc[t] =>
              IF arg[t].type = "BACKLIGHT"
              THEN /\ UNCHANGED <<leds, rgbBlink>>
                   /\ UNCHANGED <<mNotificationState, mAttentionState,
                                  mBatteryState>>
                   /\ pc'[t] = "unlock" => log' = << <<"lcd_backlight", lcd'>> >>
                   /\ pc'[t] # "unlock" => lcd' = lcd
              ELSE /\ lcd' = lcd
                   /\ (log' # log /\ log' # <<>>) =>
                          log'[Len(log')][1] # "lcd_backlight"
      ]_vars

\* C18 witness: a backlight call has made its write while a notification
\* blinks on the shared LED and another call waits for the lock.
C18_Witness ==
    \E t \in Threads :
        /\ pc[t] = "unlock"
        /\ arg[t].type = "BACKLIGHT"
        /\ log = << <<"lcd_backlight", <<255>>>> >>
        /\ mNotificationState = StateGreenBlink
        /\ rgbBlink = <<1>>
        /\ \A led \in Leds : HoldsRamp(led, StateGreenBlink)
        /\ \E u \in Threads : pc[u] = "lock" /\ arg[u].type = "BATTERY"

-----------------------------------------------------------------------------
FlagAsLastApplied ==
    (mLock = 0 /\ LedWritten) =>
        IF AnyLit
        THEN rgbBlink = <<IF EffectiveState.flashMode = "TIMED" THEN 1 ELSE 0>>
        ELSE \A led \in Leds : HoldsSteady(led, 0)

-----------------------------------------------------------------------------
\* Alpha scales every component of the color to 0: alpha is not 0xff and
\* each byte times alpha is below 255.
ScalesToZero(color) ==
    LET alpha == color.hi \div 256
    IN  /\ alpha # 255
        /\ (color.hi % 256) * alpha < 255
        /\ (color.lo \div 256) * alpha < 255
        /\ (color.lo % 256) * alpha < 255

\* C20: the arbitration goes by the unscaled RGB bits and the output by the
\* components scaled by alpha: when the highest-priority lit role has an
\* alpha that scales its three components to 0 (alpha 0, or a small one),
\* every channel is driven with 0 (steady: blink-enable 0, brightness 0,
\* blink-start flag 0; blinking: a duty-cycle list of zeros), whatever lit
\* state a lower role holds.
C20_DarkRoleMasks ==
    (mLock = 0 /\ LedWritten /\ AnyLit /\ ScalesToZero(EffectiveState.color)) =>
        IF EffectiveState.flashMode = "TIMED"
        THEN \A led \in Leds :
                 leds[led]["duty_pcts"] = <<0, 0, 0, 0, 0, 0, 0, 0>>
        ELSE /\ rgbBlink = <<0>>
             /\ \A led \in Leds :
                    leds[led]["blink"] = <<0>> /\ leds[led]["brightness"] = <<0>>

\* C20 witness: NOTIFICATIONS holds 0x017F7F7F (alpha 1: 127 / 255 = 0) and
\* BATTERY the lit 0x40FFFFFF; both calls have returned and the channels
\* are at brightness 0.
C20_Witness ==
    /\ \A t \in Threads : pc[t] = "idle"
    /\ mNotificationState = LightState(Color(383, 32639), "NONE", 0, 0)
    /\ mBatteryState = StateDimWhite
    /\ \A led \in Leds : leds[led]["brightness"] = <<0>>

====
